---- MODULE Spec2Model ----
(***************************************************************************)
(* Model of src/option.ts: the class Option<T>, a wrapper around one       *)
(* private optional field `value`.  The heap holds every Option object     *)
(* constructed so far; each action is one call of a static factory or of a *)
(* method on an object of the heap, and records what the call was given,   *)
(* what it returned or threw and how often it invoked its callbacks.       *)
(***************************************************************************)
EXTENDS Integers, Sequences, FiniteSets, TLC

\* ------------------------------------------------------------------ bounds
\* Number of Option objects constructed in one behaviour.
MaxObjects == 2

\* ------------------------------------------------------------------ values
\* JavaScript's `undefined`, the value an omitted `value?: T` holds.
Undefined == "undefined"
\* JavaScript's `null`; `null !== undefined` under strict equality.
Null == "null"
\* The element type T: undefined, null and the empty-like number 0.
\* TypeScript admits all of them as a T (T = number | null | undefined).
Values == {Undefined, Null, "0"}
\* One-argument callbacks (value: T) => U, as pure tables.
Fns == [Values -> Values]
\* Callback used where an operation takes no one-argument callback.
NoFn == [v \in Values |-> v]
\* The message of the Error thrown by unwrap().
UnwrapErrorMessage == "Tried to unwrap an Option that is None"

\* ----------------------------------------------------------------- objects
\* private constructor(private value?: T) {}
NewOption(value) == [value |-> value]

\* static Some<T>(value: T): return new Option(value)
Some(value) == NewOption(value)

\* static None<T>(): return new Option<T>(undefined)
None == NewOption(Undefined)

\* isSome(): return this.value !== undefined   (strict inequality)
isSome(o) == o.value # Undefined

\* isNone(): return this.value === undefined   (strict equality)
isNone(o) == o.value = Undefined

\* Outcomes of a call.
Returned(kind, val) == [kind |-> kind, val |-> val]
Thrown(message) == [kind |-> "throw", val |-> message]

\* unwrap(): if (this.isNone()) throw new Error(...); return this.value as T
\* Variant: the message README.md shows for this error.
unwrap_readme(o) ==
  IF isNone(o) THEN Thrown("Cannot unwrap a None value") ELSE Returned("value", o.value)
unwrap(o) ==
  IF isNone(o) THEN Thrown(UnwrapErrorMessage) ELSE Returned("value", o.value)

\* unwrapOr(defaultValue): this.isSome() ? this.value : defaultValue
unwrapOr(o, defaultValue) ==
  Returned("value", IF isSome(o) THEN o.value ELSE defaultValue)

\* unwrapOrElse(fn): this.isSome() ? this.value : fn()
\* fn is a thunk; fnResult is what it returns when invoked.
unwrapOrElse(o, fnResult) ==
  IF isSome(o)
    THEN [ret |-> Returned("value", o.value), thunkCalls |-> 0]
    ELSE [ret |-> Returned("value", fnResult), thunkCalls |-> 1]

\* map(fn): if (this.isSome()) return Option.Some(fn(this.value));
\*          return Option.None()
\* h is the heap, self the receiver's index; the result is a new object,
\* made by the factory (and with the argument) the taken branch calls.
\* Variant: the Some branch overwrites the receiver instead of allocating.
map_inplace(h, self, fn) ==
  IF isSome(h[self])
    THEN [heap |-> [h EXCEPT ![self] = Some(fn[h[self].value])],
          ret |-> Returned("option", self),
          factory |-> "Some", arg |-> fn[h[self].value],
          fnArgs |-> <<h[self].value>>]
    ELSE [heap |-> Append(h, None),
          ret |-> Returned("option", Len(h) + 1),
          factory |-> "None", arg |-> Undefined,
          fnArgs |-> <<>>]
map(h, self, fn) ==
  IF isSome(h[self])
    THEN [heap |-> Append(h, Some(fn[h[self].value])),
          ret |-> Returned("option", Len(h) + 1),
          factory |-> "Some", arg |-> fn[h[self].value],
          fnArgs |-> <<h[self].value>>]
    ELSE [heap |-> Append(h, None),
          ret |-> Returned("option", Len(h) + 1),
          factory |-> "None", arg |-> Undefined,
          fnArgs |-> <<>>]

\* orElse(fn): this.isSome() ? this : fn()
\* fnResult is the index of the Option the thunk returns when invoked.
orElse(h, self, fnResult) ==
  IF isSome(h[self])
    THEN [ret |-> Returned("option", self), thunkCalls |-> 0]
    ELSE [ret |-> Returned("option", fnResult), thunkCalls |-> 1]

\* match(someFn, noneFn): this.isSome() ? someFn(this.value) : noneFn()
match(o, someFn, noneResult) ==
  IF isSome(o)
    THEN [ret |-> Returned("value", someFn[o.value]),
          fnArgs |-> <<o.value>>, thunkCalls |-> 0]
    ELSE [ret |-> Returned("value", noneResult),
          fnArgs |-> <<>>, thunkCalls |-> 1]

\* ------------------------------------------------------------------- state
VARIABLES
  heap,        \* the Option objects constructed so far, by index
  built,       \* per object, history: the caller's call that produced it (by),
               \* the receiver of a map (over), the static factory that ran
               \* and the argument it was given
  op,          \* the last call's name
  self,        \* the last call's receiver (index into heap), 0 for a factory
  argValue,    \* the last call's value argument (Some's value, unwrapOr's default)
  argFn,       \* the last call's one-argument callback (map's fn, match's someFn)
  argThunk,    \* what the last call's thunk returns (unwrapOrElse's fn, match's noneFn)
  argOption,   \* index of the Option that orElse's thunk returns
  ret,         \* the last call's outcome
  fnArgs,      \* arguments the one-argument callback was invoked with, in order
  thunkCalls   \* number of times the thunk was invoked during the last call

vars == <<heap, built, op, self, argValue, argFn, argThunk, argOption,
          ret, fnArgs, thunkCalls>>

Refs == 1..Len(heap)

Init ==
  /\ heap = <<>>
  /\ built = <<>>
  /\ op = "init"
  /\ self = 0
  /\ argValue = Undefined
  /\ argFn = NoFn
  /\ argThunk = Undefined
  /\ argOption = 0
  /\ ret = Returned("none", Undefined)
  /\ fnArgs = <<>>
  /\ thunkCalls = 0

\* What a call that takes no such argument leaves in the argument record.
NoArgs ==
  /\ argValue' = Undefined
  /\ argFn' = NoFn
  /\ argThunk' = Undefined
  /\ argOption' = 0

\* const o = Option.Some(value)
CallSome ==
  \E value \in Values :
    /\ Len(heap) < MaxObjects
    /\ heap' = Append(heap, Some(value))
    /\ built' = Append(built, [by |-> "Some", over |-> 0, factory |-> "Some", arg |-> value])
    /\ op' = "Some" /\ self' = 0
    /\ argValue' = value /\ argFn' = NoFn /\ argThunk' = Undefined /\ argOption' = 0
    /\ ret' = Returned("option", Len(heap) + 1)
    /\ fnArgs' = <<>> /\ thunkCalls' = 0

\* const o = Option.None<T>()
CallNone ==
  /\ Len(heap) < MaxObjects
  /\ heap' = Append(heap, None)
  /\ built' = Append(built, [by |-> "None", over |-> 0, factory |-> "None", arg |-> Undefined])
  /\ op' = "None" /\ self' = 0
  /\ NoArgs
  /\ ret' = Returned("option", Len(heap) + 1)
  /\ fnArgs' = <<>> /\ thunkCalls' = 0

\* heap[r].isSome()
CallIsSome ==
  \E r \in Refs :
    /\ op' = "isSome" /\ self' = r
    /\ NoArgs
    /\ ret' = Returned("bool", isSome(heap[r]))
    /\ fnArgs' = <<>> /\ thunkCalls' = 0
    /\ UNCHANGED <<heap, built>>

\* heap[r].isNone()
CallIsNone ==
  \E r \in Refs :
    /\ op' = "isNone" /\ self' = r
    /\ NoArgs
    /\ ret' = Returned("bool", isNone(heap[r]))
    /\ fnArgs' = <<>> /\ thunkCalls' = 0
    /\ UNCHANGED <<heap, built>>

\* heap[r].unwrap()
CallUnwrap ==
  \E r \in Refs :
    /\ op' = "unwrap" /\ self' = r
    /\ NoArgs
    /\ ret' = unwrap(heap[r])
    /\ fnArgs' = <<>> /\ thunkCalls' = 0
    /\ UNCHANGED <<heap, built>>

\* heap[r].unwrapOr(defaultValue)
CallUnwrapOr ==
  \E r \in Refs, defaultValue \in Values :
    /\ op' = "unwrapOr" /\ self' = r
    /\ argValue' = defaultValue /\ argFn' = NoFn
    /\ argThunk' = Undefined /\ argOption' = 0
    /\ ret' = unwrapOr(heap[r], defaultValue)
    /\ fnArgs' = <<>> /\ thunkCalls' = 0
    /\ UNCHANGED <<heap, built>>

\* heap[r].unwrapOrElse(() => fnResult)
CallUnwrapOrElse ==
  \E r \in Refs, fnResult \in Values :
    LET c == unwrapOrElse(heap[r], fnResult) IN
    /\ op' = "unwrapOrElse" /\ self' = r
    /\ argValue' = Undefined /\ argFn' = NoFn
    /\ argThunk' = fnResult /\ argOption' = 0
    /\ ret' = c.ret
    /\ fnArgs' = <<>> /\ thunkCalls' = c.thunkCalls
    /\ UNCHANGED <<heap, built>>

\* heap[r].map(fn)
CallMap ==
  \E r \in Refs, fn \in Fns :
    LET c == map(heap, r, fn) IN
    /\ Len(heap) < MaxObjects
    /\ heap' = c.heap
    /\ built' = IF Len(c.heap) > Len(heap)
                  THEN Append(built, [by |-> "map", over |-> r,
                                      factory |-> c.factory, arg |-> c.arg])
                  ELSE built
    /\ op' = "map" /\ self' = r
    /\ argValue' = Undefined /\ argFn' = fn
    /\ argThunk' = Undefined /\ argOption' = 0
    /\ ret' = c.ret
    /\ fnArgs' = c.fnArgs /\ thunkCalls' = 0

\* heap[r].orElse(() => heap[fnResult])
CallOrElse ==
  \E r \in Refs, fnResult \in Refs :
    LET c == orElse(heap, r, fnResult) IN
    /\ op' = "orElse" /\ self' = r
    /\ argValue' = Undefined /\ argFn' = NoFn
    /\ argThunk' = Undefined /\ argOption' = fnResult
    /\ ret' = c.ret
    /\ fnArgs' = <<>> /\ thunkCalls' = c.thunkCalls
    /\ UNCHANGED <<heap, built>>

\* heap[r].match(someFn, () => noneResult)
CallMatch ==
  \E r \in Refs, someFn \in Fns, noneResult \in Values :
    LET c == match(heap[r], someFn, noneResult) IN
    /\ op' = "match" /\ self' = r
    /\ argValue' = Undefined /\ argFn' = someFn
    /\ argThunk' = noneResult /\ argOption' = 0
    /\ ret' = c.ret
    /\ fnArgs' = c.fnArgs /\ thunkCalls' = c.thunkCalls
    /\ UNCHANGED <<heap, built>>

Next ==
  \/ CallSome
  \/ CallNone
  \/ CallIsSome
  \/ CallIsNone
  \/ CallUnwrap
  \/ CallUnwrapOr
  \/ CallUnwrapOrElse
  \/ CallMap
  \/ CallOrElse
  \/ CallMatch

Spec == Init /\ [][Next]_vars

TypeOK ==
  /\ Len(heap) <= MaxObjects
  /\ Len(built) = Len(heap)
  /\ \A i \in Refs : heap[i].value \in Values
  /\ self \in 0..Len(heap)
  /\ argFn \in Fns
\* ------------------------------------------------------------ properties
\* The object the last call was invoked on, and how it was constructed.
SelfBuiltBySome == self \in Refs /\ built[self].factory = "Some"
SelfBuiltByNone == self \in Refs /\ built[self].factory = "None"
\* The value given to the factory that constructed the receiver.
SelfArg == built[self].arg

\* C1: isSome() returns true exactly when the container was built by
\* Option.Some(v), for every v of the element type (undefined included),
\* and false when built by Option.None(); isNone() is its negation.
C1_IsSomeIffBuiltBySome ==
  /\ op = "isSome" => ret = Returned("bool", built[self].factory = "Some")
  /\ op = "isNone" => ret = Returned("bool", built[self].factory # "Some")
  /\ \A i \in Refs : isNone(heap[i]) = ~isSome(heap[i])

\* C2: for all v, Option.Some(v).unwrap() returns v and does not raise.
C2_UnwrapSomeReturnsValue ==
  (op = "unwrap" /\ SelfBuiltBySome) => ret = Returned("value", SelfArg)

C4_MapLaw ==
  op = "map" =>
     /\ SelfBuiltBySome =>
          /\ fnArgs = <<SelfArg>>
          /\ isSome(heap[ret.val])
          /\ unwrap(heap[ret.val]) = Returned("value", argFn[SelfArg])
     /\ SelfBuiltByNone =>
          /\ fnArgs = <<>>
          /\ isNone(heap[ret.val])

\* C5: orElse short-circuit.  Option.Some(v).orElse(fn) returns the receiver
\* itself, present and wrapping v, without invoking fn; Option.None()
\* .orElse(fn) invokes fn exactly once and returns the container fn returned.
C5_OrElseShortCircuit ==
  op = "orElse" =>
     /\ SelfBuiltBySome =>
          /\ ret = Returned("option", self)
          /\ thunkCalls = 0
          /\ isSome(heap[ret.val])
          /\ heap[ret.val].value = SelfArg
     /\ SelfBuiltByNone =>
          /\ ret = Returned("option", argOption)
          /\ thunkCalls = 1

\* C6: lazy default.  Option.Some(v).unwrapOrElse(fn) returns v and invokes
\* fn zero times; Option.None().unwrapOrElse(fn) invokes fn exactly once and
\* returns its result.
C6_UnwrapOrElseLazy ==
  op = "unwrapOrElse" =>
     /\ SelfBuiltBySome => ret = Returned("value", SelfArg) /\ thunkCalls = 0
     /\ SelfBuiltByNone => ret = Returned("value", argThunk) /\ thunkCalls = 1

\* C7: Option.Some(v).unwrapOr(d) returns v, never d, for every v and d;
\* Option.None().unwrapOr(d) returns d; unwrapOr never raises.
C7_UnwrapOrDefault ==
  op = "unwrapOr" =>
     /\ ret.kind # "throw"
     /\ SelfBuiltBySome => ret = Returned("value", SelfArg)
     /\ SelfBuiltByNone => ret = Returned("value", argValue)

\* C8: match dispatch.  Every match(someFn, noneFn) invokes exactly one of
\* the two functions, exactly once, and returns its result:
\* Option.Some(v).match equals someFn(v) with noneFn not invoked,
\* Option.None().match equals noneFn() with someFn not invoked.
C8_MatchDispatch ==
  op = "match" =>
     /\ Len(fnArgs) + thunkCalls = 1
     /\ SelfBuiltBySome =>
          /\ fnArgs = <<SelfArg>> /\ thunkCalls = 0
          /\ ret = Returned("value", argFn[SelfArg])
     /\ SelfBuiltByNone =>
          /\ fnArgs = <<>> /\ thunkCalls = 1
          /\ ret = Returned("value", argThunk)

\* C9: immutability.  No call changes the state (Some/None) or the wrapped
\* value of a container that already exists, so isSome(), isNone() and
\* unwrap() on it keep giving the same outcome; map returns a container that
\* did not exist before the call.
C9_Step ==
  /\ Len(heap') >= Len(heap)
  /\ \A i \in 1..Len(heap) :
       /\ heap'[i] = heap[i]
       /\ isSome(heap'[i]) = isSome(heap[i])
       /\ isNone(heap'[i]) = isNone(heap[i])
       /\ unwrap(heap'[i]) = unwrap(heap[i])
  /\ op' = "map" => ret'.val \notin 1..Len(heap) /\ ret'.val \in 1..Len(heap')
C9_Immutable == [][C9_Step]_vars

\* C9 witness: map has run on a container in the Some state with a callback
\* that changes the value, and the receiver still holds its own value.
C9_Witness ==
  /\ op = "map" /\ self \in Refs
  /\ isSome(heap[self])
  /\ argFn[heap[self].value] # heap[self].value
  /\ fnArgs = <<heap[self].value>>

\* C10: state reachability.  A container in the Some state is produced only
\* by Option.Some(...) or by map over a Some container; a container in the
\* None state only by Option.None(), by map over a None container or as the
\* result of orElse's fallback; neither Option.Some(v) nor map over a Some
\* container ever yields a container that reports isNone().
C10_StateReachability ==
  /\ \A i \in Refs :
       /\ isSome(heap[i]) =>
            \/ built[i].by = "Some"
            \/ built[i].by = "map" /\ isSome(heap[built[i].over])
       /\ isNone(heap[i]) =>
            \/ built[i].by = "None"
            \/ built[i].by = "map" /\ isNone(heap[built[i].over])
       /\ built[i].by = "Some" => ~isNone(heap[i])
       /\ (built[i].by = "map" /\ isSome(heap[built[i].over])) => ~isNone(heap[i])
  /\ (op = "orElse" /\ isNone(heap[ret.val])) =>
       /\ thunkCalls = 1
       /\ ret.val = argOption
====
